---- MODULE Spec2Model ----
(***************************************************************************)
(* Model of src/server.py: the POST /fusion-pdf handler (fusion_pdf) and   *)
(* the retriever it calls (fetch_pdf_stream_to_file).                      *)
(*                                                                         *)
(* One behaviour of the model is one merge request.  The request payload   *)
(* is revealed as the handler reads it: each loop iteration draws the next *)
(* catalogue / chapter from a small set of inputs.  The PDF library is     *)
(* modelled by what the handler uses of it: a writer is a sequence of      *)
(* pages plus a flat list of outline items (title, target page, parent),   *)
(* add_outline_item appending the item as the last child of its parent.    *)
(***************************************************************************)
EXTENDS Integers, Sequences, FiniteSets, TLC

(* ---------------------------- bounds ---------------------------------- *)
MaxSources  == 2      \* catalogues per request
MaxChapters == 2      \* chapters per request (over all catalogues)
MaxPages    == 1      \* pages per source document; start pages go one beyond

(* ------------------------- JSON-like values --------------------------- *)
JStr(s) == [t |-> "str", v |-> s]
JInt(n) == [t |-> "int", v |-> n]

None == [t |-> "none"]

(* ----------------------------- inputs --------------------------------- *)
Fournisseurs == {"Azurlign", "CEDAM"}

PageCounts == 0..MaxPages

StartPages == (-1)..(MaxPages + 1)

\* chapters whose three fields are usable: a known category written with a
\* capital at every start page, an unknown category, and no category at all
ChapitresBienFormes ==
    { [titre |-> "Intro", categorie |-> JStr("Sanitaire"), page_debut |-> JInt(p)] :
          p \in StartPages }
    \cup { [titre |-> "Intro", categorie |-> JStr("jardin"), page_debut |-> JInt(1)],
           [titre |-> "Intro", page_debut |-> JInt(1)] }

\* chapters with one unusable field
ChapitresMalFormes ==
    { [categorie |-> JStr("meuble"), page_debut |-> JInt(1)],
      [titre |-> "Intro", categorie |-> JStr("meuble")],
      [titre |-> "Intro", categorie |-> JStr("meuble"), page_debut |-> JStr("abc")],
      [titre |-> "Intro", categorie |-> JInt(42), page_debut |-> JInt(1)] }

ChapterInputs == ChapitresBienFormes \cup ChapitresMalFormes

FetchOutcomes == {"ok", "http_error", "stream_error"}

(* ------------------------ pure helpers -------------------------------- *)
Max(a, b) == IF a >= b THEN a ELSE b

\* str.lower() on the labels the inputs use
Lower(s) ==
    CASE s = "Sanitaire" -> "sanitaire"
      [] s = "MEUBLE"    -> "meuble"
      [] OTHER           -> s

\* str.capitalize() on the known categories
Capitalize(s) ==
    CASE s = "carrelage"    -> "Carrelage"
      [] s = "robinetterie" -> "Robinetterie"
      [] s = "meuble"       -> "Meuble"
      [] s = "sanitaire"    -> "Sanitaire"
      [] s = "autre"        -> "Autre"
      [] OTHER              -> s

\* strings int() accepts
NumericStrings == {"1", "2"}

StrToInt(s) == CASE s = "1" -> 1 [] s = "2" -> 2 [] OTHER -> 0

\* int(x): defined on integers and numeric strings, raises otherwise
IntOk(x) == x.t = "int" \/ (x.t = "str" /\ x.v \in NumericStrings)

PyInt(x) == IF x.t = "int" THEN x.v ELSE StrToInt(x.v)

categories_connues == <<"carrelage", "robinetterie", "meuble", "sanitaire", "autre">>

Connues == { categories_connues[i] : i \in DOMAIN categories_connues }

\* ch.get("categorie", "autre")
GetCategorie(c) == IF "categorie" \in DOMAIN c THEN c.categorie ELSE JStr("autre")

\* variant: the start page is made 0-based without the lower clamp
Debut_Mut(p) == p - 1

\* max(1, int(ch["page_debut"])) - 1
Debut(p) == Max(1, p) - 1

\* variant: the chapter page is left relative to its own source
PageAbsolue_Mut(off, debut) == debut

PageAbsolue(off, debut) == off + debut

\* variant: the offset advances by one per source
AdvanceOffset_Mut(off, n) == off + 1

\* page_offset += len(reader.pages)
AdvanceOffset(off, n) == off + n

\* variant: an unknown category falls into the first bucket
Cible_Mut(categorie) == IF categorie \in Connues THEN categorie ELSE categories_connues[1]

\* categorie if categorie in bookmarks_par_categorie else "autre"
Cible(categorie) == IF categorie \in Connues THEN categorie ELSE "autre"

(* --------------------------- PDF writer ------------------------------- *)
EmptyWriter == [pages |-> <<>>, outline |-> <<>>]

\* writer.add_outline_item(title, page, parent): the new item's reference is
\* its position in the outline list
AddOutlineItem(w, titre, page, parent) ==
    [w EXCEPT !.outline = Append(@, [titre |-> titre, page |-> page, parent |-> parent])]

LastRef(w) == Len(w.outline)

\* for page in reader.pages: writer.add_page(page)
AddPages(w, src, n) ==
    [w EXCEPT !.pages = @ \o [k \in 1..n |-> <<src, k>>]]

(* ----------------------------- state ---------------------------------- *)
VARIABLES
    pc,                       \* position of the handler
    ncat,                     \* catalogues taken from the payload so far
    nch,                      \* chapters taken from the payload so far
    cat,                      \* loop variable: current catalogue
    ch,                       \* loop variable: current chapter
    writer,                   \* PdfWriter
    page_offset,
    bookmarks_par_categorie,
    bm_fournisseur,           \* reference of the current supplier item
    temp_files,               \* handles to close at the end
    storage,                  \* every SpooledTemporaryFile created: open or not
    reader,                   \* page count of the opened source, or None
    journal,                  \* the "[merge] ... pages= offset=" log lines
    response                  \* what the handler gives back

vars == <<pc, ncat, nch, cat, ch, writer, page_offset, bookmarks_par_categorie,
          bm_fournisseur, temp_files, storage, reader, journal, response>>

Init ==
    /\ pc = "start"
    /\ ncat = 0
    /\ nch = 0
    /\ cat = None
    /\ ch = None
    /\ writer = EmptyWriter
    /\ page_offset = 0
    /\ bookmarks_par_categorie = [c \in Connues |-> <<>>]
    /\ bm_fournisseur = 0
    /\ temp_files = <<>>
    /\ storage = <<>>
    /\ reader = None
    /\ journal = <<>>
    /\ response = None

(* ------------------------ handler operations -------------------------- *)
\* reference of the root outline item, the first item the writer gets
racine == 1

TitreGlobal == "Catalogue fusionne"

\* variant: the retriever's error is passed on as it is, without the supplier
SourceError_Mut(c, cause) ==
    [kind |-> "error", detail |-> <<cause>>]

\* except Exception as e: raise HTTPException(400, f"{cat.get('fournisseur')} | {e}")
SourceError(c, cause) ==
    [kind |-> "error", detail |-> <<c.fournisseur, cause>>]

\* except Exception as e: raise HTTPException(400, str(e))
RequestError(cause) ==
    [kind |-> "error", detail |-> <<cause>>]

\* StreamingResponse over the written document
PdfResponse(w) ==
    [kind |-> "pdf", pages |-> w.pages, outline |-> w.outline]

\* variant: a start page that is no number falls back to the source's first page
ChapterStep_Mut(w, b, c, fournisseur, off, bm) ==
    IF "titre" \notin DOMAIN c
    THEN [writer |-> w, buckets |-> b]
    ELSE IF GetCategorie(c).t # "str"
    THEN [writer |-> w, buckets |-> b]
    ELSE LET categorie    == Lower(GetCategorie(c).v)
             debut        == IF "page_debut" \in DOMAIN c /\ IntOk(c.page_debut)
                             THEN Debut(PyInt(c.page_debut)) ELSE 0
             page_absolue == PageAbsolue(off, debut)
             cible        == Cible(categorie)
         IN [writer  |-> AddOutlineItem(w, <<"chapitre", c.titre>>, page_absolue, bm),
             buckets |-> [b EXCEPT ![cible] =
                             Append(@, [titre |-> <<fournisseur, c.titre>>,
                                        page  |-> page_absolue])]]

\* the body of "for ch in chapitres": try ... except Exception: pass
\* Gives the writer and the buckets after the chapter.
ChapterStep(w, b, c, fournisseur, off, bm) ==
    IF "titre" \notin DOMAIN c
    THEN [writer |-> w, buckets |-> b]                      \* KeyError
    ELSE IF GetCategorie(c).t # "str"
    THEN [writer |-> w, buckets |-> b]                      \* AttributeError
    ELSE IF "page_debut" \notin DOMAIN c
    THEN [writer |-> w, buckets |-> b]                      \* KeyError
    ELSE IF ~IntOk(c.page_debut)
    THEN [writer |-> w, buckets |-> b]                      \* ValueError / TypeError
    ELSE LET categorie    == Lower(GetCategorie(c).v)
             page_absolue == PageAbsolue(off, Debut(PyInt(c.page_debut)))
             cible        == Cible(categorie)
         IN [writer  |-> AddOutlineItem(w, <<"chapitre", c.titre>>, page_absolue, bm),
             buckets |-> [b EXCEPT ![cible] =
                             Append(@, [titre |-> <<fournisseur, c.titre>>,
                                        page  |-> page_absolue])]]

\* variant: the lowest page among the entries
FirstPage_Mut(items) ==
    CHOOSE m \in { items[k].page : k \in DOMAIN items } :
        \A k \in DOMAIN items : m <= items[k].page

\* items[0]["page"]
FirstPage(items) == items[1].page

RECURSIVE AddLeaves(_, _, _, _)
\* for it in items: writer.add_outline_item(it["titre"], it["page"], parent=cat_item)
AddLeaves(w, items, k, cat_item) ==
    IF k > Len(items) THEN w
    ELSE AddLeaves(AddOutlineItem(w, <<"entree", items[k].titre>>, items[k].page, cat_item),
                   items, k + 1, cat_item)

RECURSIVE AddCategories(_, _, _, _)
\* for categorie, items in bookmarks_par_categorie.items(): if items: ...
AddCategories(w, b, i, cat_root) ==
    IF i > Len(categories_connues) THEN w
    ELSE LET categorie == categories_connues[i]
             items     == b[categorie]
         IN IF items = <<>>
            THEN AddCategories(w, b, i + 1, cat_root)
            ELSE LET w1 == AddOutlineItem(w, <<"categorie", Capitalize(categorie)>>,
                                          FirstPage(items), cat_root)
                 IN AddCategories(AddLeaves(w1, items, 1, LastRef(w1)), b, i + 1, cat_root)

\* the "navigation par categorie" subtree
CategoryView(w, b) ==
    LET w1 == AddOutlineItem(w, <<"navigation">>, 0, racine)
    IN AddCategories(w1, b, 1, LastRef(w1))

\* variant: only the file of the last source is closed
CloseAll_Mut(st, files) ==
    [h \in DOMAIN st |->
        IF files # <<>> /\ files[Len(files)] = h
        THEN [st[h] EXCEPT !.open = FALSE]
        ELSE st[h]]

\* for f in temp_files: f.close()
CloseAll(st, files) ==
    [h \in DOMAIN st |->
        IF \E k \in DOMAIN files : files[k] = h
        THEN [st[h] EXCEPT !.open = FALSE]
        ELSE st[h]]

\* variant: every supplier item targets the first page of the output
SupplierItem_Mut(w, fournisseur, off) ==
    AddOutlineItem(w, <<"dossier", fournisseur>>, 0, racine)

\* bm_fournisseur = writer.add_outline_item(fournisseur, page_offset, parent=racine)
SupplierItem(w, fournisseur, off) ==
    AddOutlineItem(w, <<"dossier", fournisseur>>, off, racine)

(* ----------------------------- actions -------------------------------- *)
\* payload.get("catalogues"), the emptiness check, the writer and its root item
Validate ==
    /\ pc = "start"
    /\ \E empty \in BOOLEAN :
          IF empty
          THEN /\ response' = RequestError("Aucun catalogue fourni.")
               /\ pc' = "done"
               /\ UNCHANGED writer
          ELSE /\ writer' = AddOutlineItem(EmptyWriter, <<"racine", TitreGlobal>>, 0, 0)
               /\ pc' = "next"
               /\ UNCHANGED response
    /\ UNCHANGED <<ncat, nch, cat, ch, page_offset, bookmarks_par_categorie,
                   bm_fournisseur, temp_files, storage, reader, journal>>

\* for cat in catalogues: the next catalogue of the payload
NextSource ==
    /\ pc = "next"
    /\ ncat < MaxSources
    /\ \E f \in Fournisseurs : cat' = [fournisseur |-> f]
    /\ ncat' = ncat + 1
    /\ pc' = "fetch"
    /\ UNCHANGED <<nch, ch, writer, page_offset, bookmarks_par_categorie,
                   bm_fournisseur, temp_files, storage, reader, journal, response>>

\* fobj = fetch_pdf_stream_to_file(pdf_url); temp_files.append(fobj)
Fetch ==
    /\ pc = "fetch"
    /\ \E outcome \in FetchOutcomes :
          CASE outcome = "ok" ->
                 /\ storage' = Append(storage, [open |-> TRUE, src |-> ncat])
                 /\ temp_files' = Append(temp_files, Len(storage) + 1)
                 /\ pc' = "open"
                 /\ UNCHANGED response
            [] outcome = "http_error" ->
                 \* sess.get / raise_for_status raises before the file exists
                 /\ response' = SourceError(cat, "Erreur telechargement PDF")
                 /\ pc' = "finally"
                 /\ UNCHANGED <<storage, temp_files>>
            [] outcome = "stream_error" ->
                 \* iter_content raises after the SpooledTemporaryFile was created
                 /\ storage' = Append(storage, [open |-> TRUE, src |-> ncat])
                 /\ response' = SourceError(cat, "Erreur telechargement PDF")
                 /\ pc' = "finally"
                 /\ UNCHANGED temp_files
    /\ UNCHANGED <<ncat, nch, cat, ch, writer, page_offset, bookmarks_par_categorie,
                   bm_fournisseur, reader, journal>>

\* reader = PdfReader(fobj) and the log of its page count and offset
OpenReader ==
    /\ pc = "open"
    /\ \/ \E n \in PageCounts :
             /\ reader' = n
             /\ journal' = Append(journal, [fournisseur |-> cat.fournisseur,
                                            pages |-> n, offset |-> page_offset])
             /\ pc' = "pages"
             /\ UNCHANGED response
       \/ /\ response' = SourceError(cat, "PdfReadError")
          /\ pc' = "finally"
          /\ UNCHANGED <<reader, journal>>
    /\ UNCHANGED <<ncat, nch, cat, ch, writer, page_offset, bookmarks_par_categorie,
                   bm_fournisseur, temp_files, storage>>

\* the supplier outline item, then the source's pages
CopyPages ==
    /\ pc = "pages"
    /\ LET w1 == SupplierItem(writer, cat.fournisseur, page_offset)
       IN /\ bm_fournisseur' = LastRef(w1)
          /\ writer' = AddPages(w1, ncat, reader)
    /\ pc' = "chapters"
    /\ UNCHANGED <<ncat, nch, cat, ch, page_offset, bookmarks_par_categorie,
                   temp_files, storage, reader, journal, response>>

\* one iteration of "for ch in chapitres"
Chapter ==
    /\ pc = "chapters"
    /\ nch < MaxChapters
    /\ \E c \in ChapterInputs :
          LET r == ChapterStep(writer, bookmarks_par_categorie, c,
                               cat.fournisseur, page_offset, bm_fournisseur)
          IN /\ ch' = c
             /\ writer' = r.writer
             /\ bookmarks_par_categorie' = r.buckets
    /\ nch' = nch + 1
    /\ UNCHANGED <<pc, ncat, cat, page_offset, bm_fournisseur, temp_files, storage,
                   reader, journal, response>>

\* end of the chapters: page_offset += len(reader.pages)
\* (the loop variables ch and reader are dead from here on)
EndChapters ==
    /\ pc = "chapters"
    /\ page_offset' = AdvanceOffset(page_offset, reader)
    /\ ch' = None
    /\ reader' = None
    /\ pc' = "next"
    /\ UNCHANGED <<ncat, nch, cat, writer, bookmarks_par_categorie, bm_fournisseur,
                   temp_files, storage, journal, response>>

\* after the last catalogue: the category view, writer.write(buf), the response
Finish ==
    /\ pc = "next"
    /\ ncat >= 1
    /\ writer' = CategoryView(writer, bookmarks_par_categorie)
    /\ response' = PdfResponse(writer')
    /\ pc' = "finally"
    /\ UNCHANGED <<ncat, nch, cat, ch, page_offset, bookmarks_par_categorie,
                   bm_fournisseur, temp_files, storage, reader, journal>>

\* finally: close every file of temp_files
Finally ==
    /\ pc = "finally"
    /\ storage' = CloseAll(storage, temp_files)
    /\ pc' = "done"
    /\ UNCHANGED <<ncat, nch, cat, ch, writer, page_offset, bookmarks_par_categorie,
                   bm_fournisseur, temp_files, reader, journal, response>>

Next ==
    \/ Validate
    \/ NextSource
    \/ Fetch
    \/ OpenReader
    \/ CopyPages
    \/ Chapter
    \/ EndChapters
    \/ Finish
    \/ Finally

Spec == Init /\ [][Next]_vars

(* ------------------- vocabulary of the properties --------------------- *)
Succeeded == pc \in {"finally", "done"} /\ "kind" \in DOMAIN response /\ response.kind = "pdf"

\* a catalogue was taken from the payload and never got as far as its log line
SourceFailed == pc \in {"finally", "done"} /\ ncat >= 1 /\ Len(journal) < ncat

RECURSIVE SumPages(_, _)
\* page counts of the first n opened sources
SumPages(j, n) == IF n = 0 THEN 0 ELSE SumPages(j, n - 1) + j[n].pages

Refs(ol) == [r \in 1..Len(ol) |-> r]

Kind(ol, r) == ol[r].titre[1]

\* references of the supplier items, in outline order
SupplierRefs(ol) ==
    SelectSeq(Refs(ol), LAMBDA r : ol[r].parent = racine /\ Kind(ol, r) = "dossier")

\* references of the children of item p, in outline order
ChildRefs(ol, p) == SelectSeq(Refs(ol), LAMBDA r : ol[r].parent = p)

CategoryRefs(ol) == SelectSeq(Refs(ol), LAMBDA r : Kind(ol, r) = "categorie")

ChapterRefs(ol) == { r \in 1..Len(ol) : Kind(ol, r) = "chapitre" }

SeqMin(S) == CHOOSE m \in S : \A x \in S : m <= x

IsChapter(c) == "t" \notin DOMAIN c

\* the chapter has a title, a string (or absent) category and an integer start page
WellFormed(c) ==
    /\ IsChapter(c)
    /\ "titre" \in DOMAIN c
    /\ "page_debut" \in DOMAIN c
    /\ c.page_debut.t = "int"
    /\ ("categorie" \in DOMAIN c => c.categorie.t = "str")

\* missing title, missing or non-numeric start page, non-string category
Malformed(c) ==
    /\ IsChapter(c)
    /\ \/ "titre" \notin DOMAIN c
       \/ "page_debut" \notin DOMAIN c
       \/ (c.page_debut.t # "int" /\ ~(c.page_debut.t = "str" /\ c.page_debut.v \in NumericStrings))
       \/ ("categorie" \in DOMAIN c /\ c.categorie.t # "str")

LastItem(w) == w.outline[Len(w.outline)]

OpenHandles == { h \in DOMAIN storage : storage[h].open }

(* ------------------------------ C1 ------------------------------------ *)
\* C1 as stated: in a merge that succeeded the output has as many pages as the
\* sources together, the offset logged for source i is the sum of the page
\* counts of the sources before it, and the offsets are strictly increasing
\* in request order.
C1_Original ==
    Succeeded =>
        /\ Len(response.pages) = SumPages(journal, Len(journal))
        /\ \A i \in DOMAIN journal : journal[i].offset = SumPages(journal, i - 1)
        /\ \A i, k \in DOMAIN journal : i < k => journal[i].offset < journal[k].offset

\* C1 amended: page count and prefix sums as stated; the offsets never
\* decrease, and the offset after source i is larger than source i's exactly
\* when source i has at least one page.
C1_PageCountAndOffsets ==
    /\ \A i \in DOMAIN journal : journal[i].offset = SumPages(journal, i - 1)
    /\ \A i, k \in DOMAIN journal :
          i < k => /\ journal[i].offset <= journal[k].offset
                   /\ (k = i + 1 => (journal[i].offset < journal[k].offset
                                        <=> journal[i].pages > 0))
    /\ Succeeded =>
          /\ Len(journal) = ncat
          /\ Len(response.pages) = SumPages(journal, Len(journal))
          /\ \A i \in DOMAIN journal : \A k \in 1..journal[i].pages :
                response.pages[journal[i].offset + k] = <<i, k>>

C1_Witness ==
    /\ pc = "done"
    /\ Succeeded
    /\ Len(journal) = 2
    /\ journal[1].pages > 0
    /\ journal[2].pages > 0
    /\ journal[2].offset = journal[1].pages

(* ------------------------------ C2 ------------------------------------ *)
\* C2: when the retrieval or the parsing of source k fails, the request fails:
\* the handler gives back an error and no document, and the error names the
\* supplier of source k.
C2_FailureIsTotal ==
    SourceFailed =>
        /\ response.kind = "error"
        /\ "pages" \notin DOMAIN response
        /\ response.detail[1] = cat.fournisseur

\* the second source fails after the pages of the first were appended
C2_Witness ==
    /\ pc = "done"
    /\ SourceFailed
    /\ ncat = 2
    /\ Len(writer.pages) > 0
    /\ response.kind = "error"

(* ------------------------------ C3 ------------------------------------ *)
\* C3: in a merge that succeeded the root has one supplier item per source, in
\* request order, and the item of source i targets the output page at which
\* the first page of source i was appended.
C3_SupplierItems ==
    Succeeded =>
        LET ol == response.outline
            sr == SupplierRefs(ol)
        IN /\ Len(sr) = ncat
           /\ Len(sr) = Len(journal)
           /\ \A i \in DOMAIN sr :
                 /\ ol[sr[i]].titre[2] = journal[i].fournisseur
                 /\ ol[sr[i]].page = journal[i].offset
                 /\ journal[i].pages > 0 =>
                       response.pages[ol[sr[i]].page + 1] = <<i, 1>>

C3_Witness ==
    /\ pc = "done"
    /\ Succeeded
    /\ ncat = 2
    /\ journal[1].pages > 0
    /\ journal[2].pages > 0
    /\ response.outline[SupplierRefs(response.outline)[2]].page > 0

(* ------------------------------ C7 ------------------------------------ *)
\* C7: when the handler has finished, on any path, every staging file that
\* was created during the request is closed.
C7_AllStorageClosed ==
    pc = "done" => OpenHandles = {}

(* ------------------------------ C9 ------------------------------------ *)
\* C9 as stated: the staging file of source i is released before the
\* retrieval of source i+1 begins, so at most one staging file is open at any
\* point of the merge loop.
C9_Original ==
    /\ pc = "fetch" => OpenHandles = {}
    /\ Cardinality(OpenHandles) <= 1

\* C9 amended: the staging file of every retrieved source stays open until
\* the merge loop has been left; while source i is processed the files of all
\* the sources retrieved so far are open, and the final cleanup closes them.
C9_ClosedOnlyAtTheEnd ==
    /\ pc # "done" => \A k \in DOMAIN temp_files : storage[temp_files[k]].open
    /\ pc \in {"open", "pages", "chapters"} =>
          /\ Len(temp_files) = ncat
          /\ Cardinality(OpenHandles) = ncat
    /\ pc = "done" => \A k \in DOMAIN temp_files : ~storage[temp_files[k]].open

\* the retrieval of the second source begins with the first one's file open
C9_Witness ==
    /\ pc = "fetch"
    /\ ncat = 2
    /\ Len(temp_files) = 1
    /\ storage[temp_files[1]].open

(* ------------------------------ C4 ------------------------------------ *)
ChapterStepTaken == pc = "chapters" /\ pc' = "chapters" /\ nch' = nch + 1

\* C4: a chapter with integer start page p of a source at offset o is kept and
\* its bookmark, placed under the supplier item, targets o + max(0, p - 1):
\* page o when p = 1 and also when p <= 0.
C4_StartPageClamped ==
    [][ (ChapterStepTaken /\ WellFormed(ch')) =>
          LET p  == ch'.page_debut.v
              o  == page_offset
              it == LastItem(writer')
          IN /\ Len(writer'.outline) = Len(writer.outline) + 1
             /\ it.parent = bm_fournisseur
             /\ it.titre = <<"chapitre", ch'.titre>>
             /\ it.page = o + (IF p - 1 > 0 THEN p - 1 ELSE 0)
             /\ (p <= 1 => it.page = o)
             /\ response' = response ]_vars

\* a chapter with a start page below 1 was kept, in a source that is not the first
C4_Witness ==
    /\ pc = "chapters"
    /\ WellFormed(ch)
    /\ ch.page_debut.v <= 0
    /\ page_offset > 0
    /\ Kind(writer.outline, Len(writer.outline)) = "chapitre"
    /\ LastItem(writer).page = page_offset

(* ------------------------------ C5 ------------------------------------ *)
\* every bucket entry, as a sequence over all buckets
RECURSIVE AllEntries(_, _)
AllEntries(b, i) ==
    IF i > Len(categories_connues) THEN <<>>
    ELSE b[categories_connues[i]] \o AllEntries(b, i + 1)

\* how many bucket entries carry this supplier, title and page
EntryCount(b, fournisseur, titre, page) ==
    LET all == AllEntries(b, 1)
    IN Cardinality({ k \in DOMAIN all :
                       all[k] = [titre |-> <<fournisseur, titre>>, page |-> page] })

\* how many chapter bookmarks of suppliers of that name carry this title and page
BookmarkCount(ol, fournisseur, titre, page) ==
    Cardinality({ r \in ChapterRefs(ol) :
                    /\ ol[ol[r].parent].titre = <<"dossier", fournisseur>>
                    /\ ol[r].titre = <<"chapitre", titre>>
                    /\ ol[r].page = page })

UnknownCategory(c) ==
    /\ WellFormed(c)
    /\ "categorie" \in DOMAIN c
    /\ \A i \in DOMAIN categories_connues : Lower(c.categorie.v) # categories_connues[i]

ExactlyOncePerChapter ==
    /\ Len(AllEntries(bookmarks_par_categorie, 1)) = Cardinality(ChapterRefs(writer.outline))
    /\ \A r \in ChapterRefs(writer.outline) :
          LET ol == writer.outline
              f  == ol[ol[r].parent].titre[2]
          IN EntryCount(bookmarks_par_categorie, f, ol[r].titre[2], ol[r].page)
               = BookmarkCount(ol, f, ol[r].titre[2], ol[r].page)

\* C5: a chapter whose lower-cased category is not a known one is appended to
\* the "autre" bucket and to no other; and every retained chapter has exactly
\* one entry over all the buckets.
C5_UnknownToAutre ==
    /\ [][ (ChapterStepTaken /\ UnknownCategory(ch')) =>
             /\ Len(bookmarks_par_categorie'["autre"]) = Len(bookmarks_par_categorie["autre"]) + 1
             /\ \A c \in Connues \ {"autre"} :
                   bookmarks_par_categorie'[c] = bookmarks_par_categorie[c] ]_vars
    /\ [](pc \in {"chapters", "next"} => ExactlyOncePerChapter)

C5_Witness ==
    /\ pc = "chapters"
    /\ UnknownCategory(ch)
    /\ Len(bookmarks_par_categorie["autre"]) = 1
    /\ Len(bookmarks_par_categorie["sanitaire"]) = 1

(* ------------------------------ C6 ------------------------------------ *)
\* C6: a chapter with malformed metadata never fails the request: it leaves
\* the supplier subtree, the buckets, the pages and the offset as they were,
\* the handler stays in the chapter loop and no error is set, so that the
\* rest of the merge proceeds as if the chapter had not been in the request.
C6_MalformedDropped ==
    [][ (pc = "chapters" /\ nch' = nch + 1 /\ Malformed(ch')) =>
          /\ writer' = writer
          /\ bookmarks_par_categorie' = bookmarks_par_categorie
          /\ page_offset' = page_offset
          /\ bm_fournisseur' = bm_fournisseur
          /\ response' = response
          /\ pc' = "chapters" ]_vars

\* a malformed chapter was passed over after another chapter was kept
C6_Witness ==
    /\ pc = "chapters"
    /\ Malformed(ch)
    /\ nch = 2
    /\ Cardinality(ChapterRefs(writer.outline)) = 1
    /\ "t" \in DOMAIN response

(* ------------------------------ C8 ------------------------------------ *)
\* the pages of the entries under category item r
LeafPages(ol, r) == { ol[ChildRefs(ol, r)[k]].page : k \in DOMAIN ChildRefs(ol, r) }

\* C8 as stated: every category item targets the lowest page among its
\* entries, whatever the order of the chapters' start pages.
C8_Original ==
    Succeeded =>
        \A i \in DOMAIN CategoryRefs(response.outline) :
            LET ol == response.outline
                r  == CategoryRefs(ol)[i]
            IN ol[r].page = SeqMin(LeafPages(ol, r))

\* the known categories with a non-empty bucket, in enumeration order
NonEmptyCategories ==
    SelectSeq(categories_connues, LAMBDA c : bookmarks_par_categorie[c] # <<>>)

\* C8 amended: there is one category item per non-empty bucket, in enumeration
\* order; it targets the page of the first entry appended to its bucket (the
\* first chapter met in that category), and the entries beneath it are leaves
\* in bucket order, each targeting its own absolute page.
C8_CategoryTargetsFirstEntry ==
    Succeeded =>
        LET ol == response.outline
            cr == CategoryRefs(ol)
        IN /\ Len(cr) = Len(NonEmptyCategories)
           /\ \A i \in DOMAIN cr :
                 LET items  == bookmarks_par_categorie[NonEmptyCategories[i]]
                     leaves == ChildRefs(ol, cr[i])
                 IN /\ ol[cr[i]].titre[2] = Capitalize(NonEmptyCategories[i])
                    /\ Kind(ol, ol[cr[i]].parent) = "navigation"
                    /\ ol[cr[i]].page = items[1].page
                    /\ ol[cr[i]].page = ol[leaves[1]].page
                    /\ Len(leaves) = Len(items)
                    /\ \A k \in DOMAIN leaves :
                          /\ ol[leaves[k]].page = items[k].page
                          /\ ol[leaves[k]].titre = <<"entree", items[k].titre>>
                          /\ ChildRefs(ol, leaves[k]) = <<>>

\* a bucket whose first entry is not its lowest page
C8_Witness ==
    /\ pc = "done"
    /\ Succeeded
    /\ \E i \in DOMAIN CategoryRefs(response.outline) :
          LET ol == response.outline
              r  == CategoryRefs(ol)[i]
          IN /\ Len(ChildRefs(ol, r)) = 2
             /\ ol[r].page > SeqMin(LeafPages(ol, r))

(* ------------------------------ C10 ----------------------------------- *)
\* the position of supplier item r among the supplier items
SupplierIndex(ol, r) ==
    CHOOSE i \in DOMAIN SupplierRefs(ol) : SupplierRefs(ol)[i] = r

\* C10 as stated: in a merge that succeeded every chapter bookmark of source i
\* targets one of source i's own pages.
C10_Original ==
    Succeeded =>
        \A r \in ChapterRefs(response.outline) :
            LET ol == response.outline
                i  == SupplierIndex(ol, ol[r].parent)
            IN /\ journal[i].offset <= ol[r].page
               /\ ol[r].page < journal[i].offset + journal[i].pages

\* C10 amended: every chapter bookmark of source i targets a page at or after
\* source i's offset, and so does its bucket entry; the target is one of
\* source i's own pages exactly when max(1, p) does not exceed the source's
\* page count.  A larger start page is not clamped.
C10_TargetNotBeforeOffset ==
    /\ pc \in {"chapters", "next", "finally", "done"} =>
          /\ \A r \in ChapterRefs(writer.outline) :
                LET ol == writer.outline
                    i  == SupplierIndex(ol, ol[r].parent)
                IN journal[i].offset <= ol[r].page
          /\ \A c \in Connues : \A k \in DOMAIN bookmarks_par_categorie[c] :
                \E i \in DOMAIN journal :
                    /\ journal[i].fournisseur = bookmarks_par_categorie[c][k].titre[1]
                    /\ journal[i].offset <= bookmarks_par_categorie[c][k].page
    /\ (pc = "chapters" /\ WellFormed(ch)) =>
          LET p == ch.page_debut.v
          IN (LastItem(writer).page < page_offset + reader)
                <=> (IF p >= 1 THEN p ELSE 1) <= reader

\* a chapter of the first source whose start page is beyond that source's
\* pages, in a merge of two sources that succeeded
C10_Witness ==
    /\ pc = "done"
    /\ Succeeded
    /\ \E r \in ChapterRefs(response.outline) :
          LET ol == response.outline
              i  == SupplierIndex(ol, ol[r].parent)
          IN /\ i = 1
             /\ Len(journal) = 2
             /\ ol[r].page >= journal[2].offset

====
